---- MODULE Spec2Model ----
(***************************************************************************)
(* dunnart: the connection lifecycle and synchronisation engine of         *)
(* src/dunnart.go (main, initialConnect, the orchestrator goroutine, the   *)
(* birth-message handler, newDiscovery) and the WAN module of              *)
(* src/unnamed/part_000 (newWAN, RefreshLink, RefreshIP, Sync, Close).     *)
(*                                                                         *)
(* Goroutines are interleaved at the granularity of one broker publish:    *)
(* main, the signal goroutine, the transport (token completion, on-connect *)
(* callbacks), the orchestrator goroutine, the birth-message handler (run  *)
(* by the transport's router) and one poller per WAN entity.               *)
(***************************************************************************)
EXTENDS Naturals, Sequences, FiniteSets, TLC

(***************************************************************************)
(* Bounds of the model.                                                    *)
(***************************************************************************)
\* longest configured module list
MaxModules == 2
\* connection events the transport emits (the initial connect and reconnects)
MaxEvents == 2
\* birth messages the broker delivers
MaxBirths == 1
\* connect attempts of initialConnect that are counted (the counter saturates)
MaxAttempts == 2

(***************************************************************************)
(* Values.                                                                 *)
(***************************************************************************)
\* the key of the root module in ss
RootName == ""
\* the base topic (mqtt.base_topic)
BaseTopic == "dunnart/host"
\* moduleFactories once every init() has run
moduleFactories == {"wan"}
\* module names a configuration may list: one registered, one not
ConfigNames == {"wan", "nosuch"}
\* the payload the birth-message handler reacts to, and another one
BirthPayloads == {"online", "offline"}
\* results of getLink()
LinkValues == BOOLEAN
\* results of getIP(): an address, or "unknown" when the lookup fails
IPValues == {"192.0.2.1", "unknown"}
\* the homeassistant.discovery.prefix values considered (the default, and none)
Prefixes == {"homeassistant", ""}
\* the configured "entities" lists of the wan module, as sets
EntitySets == {{"link", "ip"}, {"link"}, {"ip"}, {}}
\* the entity lists the lifecycle specification runs the wan module with
LifecycleEntitySets == {{"link", "ip"}, {"link"}}

\* PubSub values: the zero interface value, StubPubSub{}, MQTT{mc, baseTopic}
NilPubSub == [kind |-> "nil", baseTopic |-> ""]
StubPubSub == [kind |-> "stub", baseTopic |-> ""]
MQTT(t) == [kind |-> "mqtt", baseTopic |-> t]

\* no call in progress / a call op(mod) with the subtopics it still has to publish
NoCall == [op |-> "none", mod |-> "", left |-> <<>>]
Call(op, m, left) == [op |-> op, mod |-> m, left |-> left]

RECURSIVE SeqsNoDup(_, _)
\* the sequences of at most n distinct elements of S
SeqsNoDup(S, n) ==
  IF n = 0 THEN {<<>>}
  ELSE LET shorter == SeqsNoDup(S, n - 1)
       IN shorter \cup
            {s \in {Append(t, x) : t \in shorter, x \in S} :
               \A i, j \in 1..Len(s) : i # j => s[i] # s[j]}
\* the configured module lists considered: every list of distinct names
ModuleLists == SeqsNoDup(ConfigNames, MaxModules)

Min(a, b) == IF a < b THEN a ELSE b

VARIABLES
  \* configuration, fixed by Init
  mm,          \* cfg "modules"
  entities,    \* cfg "wan.entities" as a set
  prefix,      \* cfg "homeassistant.discovery.prefix"
  macOK,       \* whether some mac_source interface is readable
  linkEnv,     \* the values getLink() may return in this run
  ipEnv,       \* the values getIP() may return in this run
  \* main
  mainpc,      \* position of main
  mi,          \* index of the next name of mm to resolve
  ss,          \* keys of the ss map
  created,     \* modules a factory has constructed
  closed,      \* modules whose deferred Close has run
  pollers,     \* running pollers, <<module, entity>>
  done,        \* the done channel is closed
  ents,        \* keys of disco.ents
  \* initialConnect
  icpc,        \* "none", "select", "ticker", "returned"
  tok,         \* the token of the connect in flight: "none", "pending", "ok", "err"
  lastErr,     \* what the last connect() returned: "none", "nil", "err"
  attempts,    \* connect() calls of the running initialConnect (saturating)
  \* transport
  connected,   \* the transport is connected
  disconnected,\* mc.Disconnect has run
  emitted,     \* on-connect callbacks invoked so far
  pendingConn, \* on-connect callbacks blocked in their select
  \* orchestrator goroutine
  orun,        \* "notstarted", "running", "returned"
  ostep,       \* 0 at the select, else the index in OrchestratorSteps
  ovisited,    \* modules the current range loop has visited
  ocur,        \* the Sync or Publish call in progress
  olog,        \* what the orchestrator did since it last received an event
  received,    \* connection events received
  processed,   \* connection events whose round is finished
  subscribed,  \* the birth-message route is registered
  \* birth-message handler
  hstep,       \* 0 when idle, else the index in BirthHandlerSteps
  hvisited, hcur,
  hlog,        \* what the handler did for the last message
  hpayload,    \* payload of the last message delivered ("none" before any)
  births,      \* messages delivered so far
  \* modules
  ps,          \* the PubSub each module is bound to
  online, ip,  \* WAN.online, WAN.ip
  \* history of the refreshes (recorded by the refresh specification only)
  lastRefresh, prevRefresh,
  \* normalise_config on its own (the normalisation specification only)
  npc,         \* "idle", "called", "returned"
  ncfg,        \* the cfg argument as passed
  nbase,       \* the baseCfg argument
  nout,        \* the members of the JSON object returned, in the order written
  \* newDiscovery on its own (the discovery specification only)
  nodeId,      \* cfg "homeassistant.discovery.node_id"
  dpc,         \* "idle", "start", "loop", "returned", "fatal"
  dvisited,    \* modules the range loop over ss has visited, in the order visited
  dbaseCfg,    \* the baseCfg map
  dents,       \* the ents map, topic to payload
  dprev,       \* the previous call: the order of its loop and the ents it returned
  dsecond      \* the call in progress is the second one

cfgvars == <<mm, entities, prefix, macOK, linkEnv, ipEnv>>
mainvars == <<mainpc, mi, ss, created, closed, pollers, done, ents>>
icvars == <<icpc, tok, lastErr, attempts>>
transvars == <<connected, disconnected, emitted, pendingConn>>
orchvars == <<orun, ostep, ovisited, ocur, olog, received, processed, subscribed>>
handvars == <<hstep, hvisited, hcur, hlog, hpayload, births>>
modvars == <<ps, online, ip>>
histvars == <<lastRefresh, prevRefresh>>
normvars == <<npc, ncfg, nbase, nout>>
discvars == <<nodeId, dpc, dvisited, dbaseCfg, dents, dprev, dsecond>>
buildvars == <<normvars, discvars>>
vars == <<cfgvars, mainvars, icvars, transvars, orchvars, handvars, modvars, histvars,
          buildvars>>

\* the process is running: main has not returned, log.Fatalf has not exited it,
\* no goroutine has panicked
Alive == mainpc \notin {"exited", "fatal_unsupported", "fatal_discovery", "panicked"}

\* no refresh recorded yet
NoRefresh ==
  [e \in {"link", "ip"} |->
     [valid |-> FALSE, forced |-> FALSE, published |-> 0,
      observed |-> IF e = "link" THEN FALSE ELSE "",
      before |-> IF e = "link" THEN FALSE ELSE ""]]

\* a map without keys
EmptyMap == [k \in {} |-> ""]

\* normalise_config is not being run on its own
NoNormalise ==
  npc = "idle" /\ ncfg = EmptyMap /\ nbase = EmptyMap /\ nout = <<>>
\* newDiscovery is not being run on its own
NoDiscovery ==
  /\ nodeId = "dunnart" /\ dpc = "idle" /\ dvisited = <<>> /\ dbaseCfg = EmptyMap
  /\ dents = EmptyMap /\ dprev = [order |-> <<>>, ents |-> EmptyMap] /\ dsecond = FALSE
NoBuild == NoNormalise /\ NoDiscovery

\* the state of the process when main starts to resolve the modules
Start ==
  /\ mainpc = "resolve" /\ mi = 1
  /\ ss = {RootName} /\ created = {} /\ closed = {} /\ pollers = {}
  /\ done = FALSE /\ ents = {}
  /\ icpc = "none" /\ tok = "none" /\ attempts = 0 /\ lastErr = "none"
  /\ connected = FALSE /\ disconnected = FALSE /\ emitted = 0 /\ pendingConn = 0
  /\ orun = "notstarted" /\ ostep = 0 /\ ovisited = {} /\ ocur = NoCall
  /\ olog = <<>> /\ received = 0 /\ processed = 0 /\ subscribed = FALSE
  /\ hstep = 0 /\ hvisited = {} /\ hcur = NoCall /\ hlog = <<>>
  /\ hpayload = "none" /\ births = 0
  /\ ps = [m \in {RootName, "wan"} |-> IF m = RootName THEN NilPubSub ELSE StubPubSub]
  /\ online = FALSE /\ ip = ""
  /\ lastRefresh = NoRefresh /\ prevRefresh = NoRefresh

\* Every module list; the entities of the wan module vary where the list
\* gets as far as constructing it. With an empty prefix get_mac is not called,
\* and the run kept is the one where no interface is readable. The sensors
\* are stable: the link is up and the address does not change.
Init ==
  /\ mm \in ModuleLists
  /\ entities \in IF mm = <<"wan">> THEN LifecycleEntitySets ELSE {{"link", "ip"}}
  /\ prefix \in Prefixes
  /\ macOK \in IF prefix = "" THEN {FALSE} ELSE BOOLEAN
  /\ linkEnv = {TRUE}
  /\ ipEnv = {"192.0.2.1"}
  /\ Start /\ NoBuild

(***************************************************************************)
(* main: module resolution (dunnart.go 171-183) and newWAN (part_000 64-97) *)
(***************************************************************************)
\* the entities newWAN creates a poller for
WANPollers(es) == {e \in {"link", "ip"} : e \in es}

\* newWAN: the fields of the new WAN and the pollers it starts
newWAN(o) ==
  /\ online' = o
  /\ ip' = ""
  /\ ps' = [ps EXCEPT !["wan"] = StubPubSub]
  /\ pollers' = pollers \cup {<<"wan", e>> : e \in WANPollers(entities)}

\* one iteration of the loop over mm: log.Fatalf on a name without a factory,
\* else the factory runs, the module enters ss and its Close is deferred
ResolveModule ==
  /\ mainpc = "resolve" /\ mi <= Len(mm)
  /\ IF mm[mi] \notin moduleFactories
     THEN /\ mainpc' = "fatal_unsupported"
          /\ UNCHANGED <<mi, ss, created, pollers, modvars>>
     ELSE /\ \E o \in linkEnv : newWAN(o)
          /\ ss' = ss \cup {mm[mi]}
          /\ created' = created \cup {mm[mi]}
          /\ mi' = mi + 1
          /\ UNCHANGED mainpc
  /\ UNCHANGED <<cfgvars, closed, done, ents, icvars, transvars, orchvars, handvars, histvars, buildvars>>

(***************************************************************************)
(* connect and initialConnect (dunnart.go 104-130)                         *)
(***************************************************************************)
\* tok.Error() of a completed token
ConnectResult(t) == IF t = "ok" THEN "nil" ELSE "err"

\* initialConnect giving up after a failed attempt
InitialConnectNext_GivesUp(err) == "returned"

\* where initialConnect goes with the error connect() returned: it returns on
\* nil, and otherwise waits for the next tick of the 5 s ticker
InitialConnectNext(err) == IF err = "nil" THEN "returned" ELSE "ticker"

\* main calls initialConnect, which calls connect: mc.Connect() starts a token
MainInitialConnect ==
  /\ mainpc = "resolve" /\ mi > Len(mm)
  /\ mainpc' = "initialConnect"
  /\ icpc' = "select" /\ tok' = "pending" /\ attempts' = 1
  /\ UNCHANGED <<cfgvars, mi, ss, created, closed, pollers, done, ents, lastErr,
                 transvars, orchvars, handvars, modvars, histvars, buildvars>>

\* an on-connect callback that gives up when another one is still waiting
OnConnectHandler_Dropping(blocked) == IF blocked > 0 THEN blocked ELSE 1

\* the on-connect callback (dunnart.go 190-195) is run once more: the blocked
\* callbacks, given those blocked so far. The callback blocks in its select
\* until the orchestrator receives from connect or done is closed
OnConnectHandler(blocked) == blocked + 1

\* the transport completes the connect token; on success the transport is
\* connected and runs the on-connect callback in a goroutine of its own
TokenComplete(ok) ==
  /\ Alive /\ tok = "pending" /\ ~disconnected
  /\ tok' = IF ok THEN "ok" ELSE "err"
  /\ IF ok
     THEN /\ connected' = TRUE /\ emitted' = emitted + 1
          /\ pendingConn' = OnConnectHandler(pendingConn)
     ELSE UNCHANGED <<connected, emitted, pendingConn>>
  /\ UNCHANGED <<cfgvars, mainvars, icpc, lastErr, attempts, disconnected,
                 orchvars, handvars, modvars, histvars, buildvars>>

\* initialConnect with what connect() returned
InitialConnectStep(err) ==
  /\ lastErr' = err
  /\ icpc' = InitialConnectNext(err)
  /\ mainpc' = IF InitialConnectNext(err) = "returned" THEN "newDiscovery" ELSE mainpc

\* connect without its case <-done
ConnectDoneCase_Never == FALSE

\* connect: whether case <-done can be taken
ConnectDoneCase == done

\* connect: case <-tok.Done(): return tok.Error()
ConnectTokDone ==
  /\ mainpc = "initialConnect" /\ icpc = "select" /\ tok \in {"ok", "err"}
  /\ InitialConnectStep(ConnectResult(tok))
  /\ tok' = "none"
  /\ UNCHANGED <<cfgvars, mi, ss, created, closed, pollers, done, ents, attempts,
                 transvars, orchvars, handvars, modvars, histvars, buildvars>>

\* connect: case <-done: return nil
ConnectCancelled ==
  /\ mainpc = "initialConnect" /\ icpc = "select" /\ ConnectDoneCase
  /\ InitialConnectStep("nil")
  /\ UNCHANGED <<cfgvars, mi, ss, created, closed, pollers, done, ents, tok, attempts,
                 transvars, orchvars, handvars, modvars, histvars, buildvars>>

\* for range t.C: the next tick, and connect again
Tick ==
  /\ mainpc = "initialConnect" /\ icpc = "ticker"
  /\ icpc' = "select" /\ tok' = "pending"
  /\ attempts' = Min(attempts + 1, MaxAttempts)
  /\ UNCHANGED <<cfgvars, mainvars, lastErr, transvars, orchvars, handvars,
                 modvars, histvars, buildvars>>

(***************************************************************************)
(* the signal goroutine (dunnart.go 146-156)                               *)
(***************************************************************************)
Signal ==
  /\ Alive /\ ~done
  /\ done' = TRUE
  /\ UNCHANGED <<cfgvars, mainpc, mi, ss, created, closed, pollers, ents, icvars,
                 transvars, orchvars, handvars, modvars, histvars, buildvars>>

(***************************************************************************)
(* newDiscovery (dunnart.go 247-289), keys of ents only                    *)
(***************************************************************************)
RECURSIVE Join(_, _)
\* strings.Join
Join(parts, sep) ==
  IF Len(parts) = 0 THEN ""
  ELSE IF Len(parts) = 1 THEN parts[1]
  ELSE parts[1] \o sep \o Join(Tail(parts), sep)

\* the MAC address as its octets; get_mac returns them joined by ":"
MacOctets == <<"00", "11", "22", "33", "44", "55">>
get_mac == Join(MacOctets, ":")
\* strings.Replace(mac, ":", "", -1)
MacNoColons == Join(MacOctets, "")
\* the default unique_id
Uid == "dnrt-" \o MacNoColons

\* Config(): <<name, class>> of the entities a module exposes
DunnartConfig == <<<<"status", "binary_sensor">>>>
WANConfig(es) ==
  (IF "link" \in es THEN <<<<"link", "binary_sensor">>>> ELSE <<>>) \o
  (IF "ip" \in es THEN <<<<"ip", "sensor">>>> ELSE <<>>)
Config(modName) == IF modName = RootName THEN DunnartConfig ELSE WANConfig(entities)

\* euid of an entity
Euid(modName, entityName) ==
  (IF modName # "" THEN Uid \o "-" \o modName ELSE Uid) \o "-" \o entityName
\* the discovery topic without the unique id of the entity
DiscoveryTopic_NoEuid(modName, entity) == Join(<<prefix, entity[2], "config">>, "/")

\* the discovery topic of an entity
DiscoveryTopic(modName, entity) ==
  Join(<<prefix, entity[2], Euid(modName, entity[1]), "config">>, "/")

\* newDiscovery looking for a MAC address whatever the prefix
DiscoveryEnabled_Always(p) == TRUE

\* if len(prefix) > 0: discovery is built, and needs a MAC address
DiscoveryEnabled(p) == p # ""

\* the keys of the ents map newDiscovery builds
DiscoveryTopics ==
  IF ~DiscoveryEnabled(prefix) THEN {}
  ELSE {DiscoveryTopic(m, Config(m)[i]) : <<m, i>> \in
          {<<m, i>> \in ss \X (1..2) : i <= Len(Config(m))}}

\* dunnart.go 199-238: mc.Disconnect is deferred, newDiscovery runs (log.Fatalf
\* when discovery is enabled and no MAC is found), and the orchestrator
\* goroutine is started; main then waits for done. The locals of
\* initialConnect are gone by now
MainNewDiscovery ==
  /\ mainpc = "newDiscovery"
  /\ IF DiscoveryEnabled(prefix) /\ ~macOK
     THEN mainpc' = "fatal_discovery" /\ UNCHANGED <<ents, orun>>
     ELSE mainpc' = "wait" /\ ents' = DiscoveryTopics /\ orun' = "running"
  /\ attempts' = 0
  /\ UNCHANGED <<cfgvars, mi, ss, created, closed, pollers, done, icpc, tok, lastErr,
                 transvars, ostep, ovisited, ocur, olog, received, processed, subscribed,
                 handvars, modvars, histvars, buildvars>>

(***************************************************************************)
(* return from main: <-done, then the deferred calls in reverse order      *)
(***************************************************************************)
MainDone ==
  /\ mainpc = "wait" /\ done
  /\ mainpc' = "deferDisconnect"
  /\ UNCHANGED <<cfgvars, mi, ss, created, closed, pollers, done, ents, icvars,
                 transvars, orchvars, handvars, modvars, histvars, buildvars>>

\* defer mc.Disconnect(0)
DeferDisconnect ==
  /\ mainpc = "deferDisconnect"
  /\ disconnected' = TRUE /\ connected' = FALSE
  /\ mainpc' = "deferClose"
  /\ UNCHANGED <<cfgvars, mi, ss, created, closed, pollers, done, ents, icvars,
                 emitted, pendingConn, orchvars, handvars, modvars, histvars, buildvars>>

\* the index in mm of the module whose deferred Close runs next (0: none left)
NextToClose ==
  LET left == {i \in 1..Len(mm) : mm[i] \in created \ closed}
  IN IF left = {} THEN 0 ELSE CHOOSE i \in left : \A j \in left : j <= i

\* the poller fields WAN.Close calls Close on, and WAN.Sync calls Sync on, in
\* order: linkPoller and ipPoller, whether newWAN has set them or not
WANCloseCalls == <<"link", "ip">>
WANSyncCalls == <<"link", "ip">>

\* WAN.Close (part_000 53-56): both pollers are closed
WANClose ==
  pollers' = pollers \ {<<"wan", WANCloseCalls[i]>> : i \in 1..Len(WANCloseCalls)}

\* defer mod.Close() of the last module not yet closed
DeferClose ==
  /\ mainpc = "deferClose" /\ NextToClose # 0
  /\ WANClose
  /\ closed' = closed \cup {mm[NextToClose]}
  /\ UNCHANGED <<cfgvars, mainpc, mi, ss, created, done, ents, icvars,
                 transvars, orchvars, handvars, modvars, histvars, buildvars>>

\* every deferred call has run: main returns and the process exits
MainExit ==
  /\ mainpc = "deferClose" /\ NextToClose = 0
  /\ mainpc' = "exited"
  /\ UNCHANGED <<cfgvars, mi, ss, created, closed, pollers, done, ents, icvars,
                 transvars, orchvars, handvars, modvars, histvars, buildvars>>

(***************************************************************************)
(* modules: Dunnart (dunnart.go 76-88) and WAN (part_000 28-62)            *)
(***************************************************************************)
\* Dunnart.Publish without its second publish
DunnartPublish_NoVersion == <<"">>

\* Dunnart.Publish: the subtopics it publishes, in order
DunnartPublish == <<"", "/version">>

\* RefreshLink publishing a change without storing it
RefreshLink_NoStore(stored, observed, forced) ==
  [publish |-> stored # observed \/ forced, stored |-> stored]

\* WAN.RefreshLink(forced) with getLink() = observed: whether it publishes, and
\* w.online afterwards
RefreshLink(stored, observed, forced) ==
  IF stored # observed \/ forced
  THEN [publish |-> TRUE, stored |-> observed]
  ELSE [publish |-> FALSE, stored |-> stored]

\* WAN.RefreshIP(forced) with getIP() = observed: whether it publishes, and
\* w.ip afterwards
RefreshIP(stored, observed, forced) ==
  IF stored # observed \/ forced
  THEN [publish |-> TRUE, stored |-> observed]
  ELSE [publish |-> FALSE, stored |-> stored]

\* the subtopics of the pollers newWAN created (linkPoller, ipPoller), in the
\* order WAN.Sync goes through them
WANPollerTopics ==
  (IF "link" \in WANPollers(entities) THEN <<"">> ELSE <<>>) \o
  (IF "ip" \in WANPollers(entities) THEN <<"/ip">> ELSE <<>>)

\* WAN.Publish: the current state of every entity is republished
WANPublish == WANPollerTopics
\* PolledSensor.Sync, for linkPoller and then ipPoller: each republishes the
\* state of its entity
PolledSensorSync == WANPollerTopics

\* the subtopics s.Publish() publishes, in order
PublishTopics(m) == IF m = RootName THEN DunnartPublish ELSE WANPublish
\* the subtopics s.Sync(ps) publishes after rebinding: Dunnart.Sync calls
\* d.Publish(); WAN.Sync syncs the link poller, then the ip poller
SyncTopics(m) == IF m = RootName THEN DunnartPublish ELSE PolledSensorSync

\* every module bound to the base topic itself
Binding_NoModule(modName) == MQTT(BaseTopic)

\* the binding the orchestrator constructs for a module
Binding(modName) ==
  MQTT(IF modName # "" THEN BaseTopic \o "/" \o modName ELSE BaseTopic)

\* the republication of the state of a WAN entity by Sync or Publish: the
\* forced refresh of the entity, the sensor read and the stored value replaced.
\* pub: whether ps.Publish is called
WANForcedRefresh(t, pub) ==
  IF t = ""
  THEN \E o \in linkEnv :
         /\ online' = RefreshLink(online, o, TRUE).stored
         /\ pub = RefreshLink(online, o, TRUE).publish
         /\ ip' = ip
  ELSE \E a \in ipEnv :
         /\ ip' = RefreshIP(ip, a, TRUE).stored
         /\ pub = RefreshIP(ip, a, TRUE).publish
         /\ online' = online

\* one ps.Publish(t, ...) of module m through binding b in a Sync or Publish
\* call. pub: whether Publish is called; a call on the nil PubSub panics
PublishOne(b, m, t, pub) ==
  /\ IF m = "wan"
     THEN WANForcedRefresh(t, pub)
     ELSE pub = TRUE /\ UNCHANGED <<online, ip>>
  /\ mainpc' = IF pub /\ b.kind = "nil" THEN "panicked" ELSE mainpc

\* what reaches the broker of a publish of subtopic t through binding b
Sent(b, t, pub) ==
  IF pub /\ b.kind = "mqtt" THEN <<<<"pub", b.baseTopic \o t>>>> ELSE <<>>

\* a poller's periodic callback: RefreshLink(false) or RefreshIP(false)
PollerTick(e) ==
  /\ Alive /\ <<"wan", e>> \in pollers
  /\ IF e = "link"
     THEN \E o \in linkEnv : online' = RefreshLink(online, o, FALSE).stored /\ ip' = ip
     ELSE \E a \in ipEnv : ip' = RefreshIP(ip, a, FALSE).stored /\ online' = online
  /\ UNCHANGED <<cfgvars, mainvars, icvars, transvars, orchvars, handvars, ps, histvars, buildvars>>

(***************************************************************************)
(* the transport's on-connect callback (dunnart.go 190-195)                *)
(***************************************************************************)
\* the connection is lost and re-established: the callback runs once more
Reconnect ==
  /\ Alive /\ connected /\ emitted < MaxEvents
  /\ emitted' = emitted + 1 /\ pendingConn' = OnConnectHandler(pendingConn)
  /\ UNCHANGED <<cfgvars, mainvars, icvars, connected, disconnected, orchvars,
                 handvars, modvars, histvars, buildvars>>

\* select: case <-done
OnConnectCancelled ==
  /\ Alive /\ pendingConn > 0 /\ done
  /\ pendingConn' = pendingConn - 1
  /\ UNCHANGED <<cfgvars, mainvars, icvars, connected, disconnected, emitted, orchvars,
                 handvars, modvars, histvars, buildvars>>

(***************************************************************************)
(* the orchestrator goroutine (dunnart.go 205-238)                         *)
(***************************************************************************)
\* the statements of case <-connect with the modules synced before the
\* advertisement
OrchestratorSteps_SyncFirst == <<"sync", "advertise", "subscribe", "sleep", "publish">>

\* the statements of case <-connect with the birth topic subscribed before
\* the modules are synced
OrchestratorSteps_SubscribeFirst == <<"advertise", "subscribe", "sync", "sleep", "publish">>

\* the statements of case <-connect, in program order
OrchestratorSteps == <<"advertise", "sync", "subscribe", "sleep", "publish">>

OrchOp == IF ostep = 0 THEN "select" ELSE OrchestratorSteps[ostep]

\* the orchestrator goes on to its next statement; after the last it is back
\* at the select and the round is finished
OrchAdvance ==
  /\ ostep' = IF ostep = Len(OrchestratorSteps) THEN 0 ELSE ostep + 1
  /\ processed' = IF ostep = Len(OrchestratorSteps) THEN processed + 1 ELSE processed
  /\ ovisited' = {}

\* a call on module m has returned: the range loop goes on, or is over
OrchCallReturns(m) ==
  /\ ocur' = NoCall
  /\ IF ovisited \cup {m} = ss
     THEN OrchAdvance
     ELSE ovisited' = ovisited \cup {m} /\ UNCHANGED <<ostep, processed>>

\* the on-connect callback without its case <-done: a plain connect <- 0
SendersReady_NoDoneCase(blocked, doneClosed) == blocked

\* The on-connect callbacks whose connect <- 0 can still be taken, given the
\* callbacks blocked in their select and whether done is closed. connect is
\* unbuffered, so a rendezvous needs one side blocked in its select; close(done)
\* wakes every select blocked on done with its case <-done, and a select
\* entered after the close finds done ready and nobody left to meet on connect
SendersReady(blocked, doneClosed) == IF doneClosed THEN 0 ELSE blocked

\* select: case <-connect, the rendezvous with one blocked on-connect callback
OrchRecv ==
  /\ Alive /\ orun = "running" /\ ostep = 0 /\ SendersReady(pendingConn, done) > 0
  /\ pendingConn' = pendingConn - 1
  /\ received' = received + 1
  /\ ostep' = 1 /\ ovisited' = {} /\ olog' = <<>>
  /\ UNCHANGED <<cfgvars, mainvars, icvars, connected, disconnected, emitted,
                 orun, ocur, processed, subscribed, handvars, modvars, histvars, buildvars>>

\* select: case <-done: return
OrchReturn ==
  /\ Alive /\ orun = "running" /\ ostep = 0 /\ done
  /\ orun' = "returned"
  /\ UNCHANGED <<cfgvars, mainvars, icvars, transvars, ostep, ovisited, ocur, olog,
                 received, processed, subscribed, handvars, modvars, histvars, buildvars>>

\* disco.advertise(mc): every entry of ents is published
OrchAdvertise ==
  /\ Alive /\ OrchOp = "advertise"
  /\ olog' = Append(olog, <<"advertise", ents>>)
  /\ OrchAdvance
  /\ UNCHANGED <<cfgvars, mainvars, icvars, transvars, orun, ocur, received, subscribed,
                 handvars, modvars, histvars, buildvars>>

\* a call op on module m goes on with the subtopics left, or returns
OrchCallGoesOn(op, m, left) ==
  IF left = <<>>
  THEN OrchCallReturns(m)
  ELSE ocur' = Call(op, m, left) /\ UNCHANGED <<ostep, processed, ovisited>>

\* s.Sync(MQTT{mc, t}) for the next module of the range loop: the module is
\* rebound and makes its first publish
OrchSyncBegin(m) ==
  /\ Alive /\ OrchOp = "sync" /\ ocur = NoCall /\ m \in ss \ ovisited
  /\ ps' = [ps EXCEPT ![m] = Binding(m)]
  /\ IF SyncTopics(m) = <<>>
     THEN /\ olog' = Append(olog, <<"sync", m, Binding(m).baseTopic>>)
          /\ OrchCallReturns(m)
          /\ UNCHANGED <<mainpc, online, ip>>
     ELSE /\ \E pub \in BOOLEAN :
               /\ PublishOne(Binding(m), m, Head(SyncTopics(m)), pub)
               /\ olog' = Append(olog, <<"sync", m, Binding(m).baseTopic>>) \o
                            Sent(Binding(m), Head(SyncTopics(m)), pub)
          /\ OrchCallGoesOn("sync", m, Tail(SyncTopics(m)))
  /\ UNCHANGED <<cfgvars, mi, ss, created, closed, pollers, done, ents, icvars, transvars,
                 orun, received, subscribed, handvars, histvars, buildvars>>

\* s.Publish() for the next module of the range loop, up to its first publish
OrchPublishBegin(m) ==
  /\ Alive /\ OrchOp = "publish" /\ ocur = NoCall /\ m \in ss \ ovisited
  /\ IF PublishTopics(m) = <<>>
     THEN /\ olog' = Append(olog, <<"publish", m>>)
          /\ OrchCallReturns(m)
          /\ UNCHANGED <<mainpc, online, ip>>
     ELSE /\ \E pub \in BOOLEAN :
               /\ PublishOne(ps[m], m, Head(PublishTopics(m)), pub)
               /\ olog' = Append(olog, <<"publish", m>>) \o
                            Sent(ps[m], Head(PublishTopics(m)), pub)
          /\ OrchCallGoesOn("publish", m, Tail(PublishTopics(m)))
  /\ UNCHANGED <<cfgvars, mi, ss, created, closed, pollers, done, ents, icvars, transvars,
                 orun, received, subscribed, handvars, ps, histvars, buildvars>>

\* the next ps.Publish of the call in progress
OrchCallStep ==
  /\ Alive /\ ocur # NoCall
  /\ \E pub \in BOOLEAN :
       /\ PublishOne(ps[ocur.mod], ocur.mod, Head(ocur.left), pub)
       /\ olog' = olog \o Sent(ps[ocur.mod], Head(ocur.left), pub)
  /\ OrchCallGoesOn(ocur.op, ocur.mod, Tail(ocur.left))
  /\ UNCHANGED <<cfgvars, mi, ss, created, closed, pollers, done, ents, icvars, transvars,
                 orun, received, subscribed, handvars, ps, histvars, buildvars>>

\* mc.Subscribe(habmTopic, mustQos, handler)
OrchSubscribe ==
  /\ Alive /\ OrchOp = "subscribe"
  /\ subscribed' = TRUE
  /\ olog' = Append(olog, <<"subscribe">>)
  /\ OrchAdvance
  /\ UNCHANGED <<cfgvars, mainvars, icvars, transvars, orun, ocur, received,
                 handvars, modvars, histvars, buildvars>>

\* time.Sleep(sdelay)
OrchSleep ==
  /\ Alive /\ OrchOp = "sleep"
  /\ olog' = Append(olog, <<"sleep">>)
  /\ OrchAdvance
  /\ UNCHANGED <<cfgvars, mainvars, icvars, transvars, orun, ocur, received, subscribed,
                 handvars, modvars, histvars, buildvars>>

(***************************************************************************)
(* the birth-message handler (dunnart.go 222-230), run by the transport    *)
(***************************************************************************)
\* the statements of the handler's if body, in program order
BirthHandlerSteps == <<"advertise", "sleep", "publish">>

\* the handler without its condition on the payload
BirthTriggers_Any(payload) == TRUE

\* the handler's condition on the payload
BirthTriggers(payload) == payload = "online"

HandOp == IF hstep = 0 THEN "idle" ELSE BirthHandlerSteps[hstep]

HandAdvance ==
  /\ hstep' = IF hstep = Len(BirthHandlerSteps) THEN 0 ELSE hstep + 1
  /\ hvisited' = {}

HandCallReturns(m) ==
  /\ hcur' = NoCall
  /\ IF hvisited \cup {m} = ss
     THEN HandAdvance
     ELSE hvisited' = hvisited \cup {m} /\ UNCHANGED hstep

\* a message on the birth topic is delivered: the router calls the handler,
\* one message at a time
BirthMessage(payload) ==
  /\ Alive /\ subscribed /\ connected /\ hstep = 0 /\ births < MaxBirths
  /\ births' = births + 1
  /\ hpayload' = payload
  /\ hlog' = <<>>
  /\ hstep' = IF BirthTriggers(payload) THEN 1 ELSE 0
  /\ UNCHANGED <<cfgvars, mainvars, icvars, transvars, orchvars, hvisited, hcur,
                 modvars, histvars, buildvars>>

\* disco.advertise(mc)
HandAdvertise ==
  /\ Alive /\ HandOp = "advertise"
  /\ hlog' = Append(hlog, <<"advertise", ents>>)
  /\ HandAdvance
  /\ UNCHANGED <<cfgvars, mainvars, icvars, transvars, orchvars, hcur, hpayload, births,
                 modvars, histvars, buildvars>>

\* time.Sleep(sdelay)
HandSleep ==
  /\ Alive /\ HandOp = "sleep"
  /\ hlog' = Append(hlog, <<"sleep">>)
  /\ HandAdvance
  /\ UNCHANGED <<cfgvars, mainvars, icvars, transvars, orchvars, hcur, hpayload, births,
                 modvars, histvars, buildvars>>

\* a call op on module m goes on with the subtopics left, or returns
HandCallGoesOn(op, m, left) ==
  IF left = <<>>
  THEN HandCallReturns(m)
  ELSE hcur' = Call(op, m, left) /\ UNCHANGED <<hstep, hvisited>>

\* s.Publish() for the next module of the range loop, up to its first publish
HandPublishBegin(m) ==
  /\ Alive /\ HandOp = "publish" /\ hcur = NoCall /\ m \in ss \ hvisited
  /\ IF PublishTopics(m) = <<>>
     THEN /\ hlog' = Append(hlog, <<"publish", m>>)
          /\ HandCallReturns(m)
          /\ UNCHANGED <<mainpc, online, ip>>
     ELSE /\ \E pub \in BOOLEAN :
               /\ PublishOne(ps[m], m, Head(PublishTopics(m)), pub)
               /\ hlog' = Append(hlog, <<"publish", m>>) \o
                            Sent(ps[m], Head(PublishTopics(m)), pub)
          /\ HandCallGoesOn("publish", m, Tail(PublishTopics(m)))
  /\ UNCHANGED <<cfgvars, mi, ss, created, closed, pollers, done, ents, icvars, transvars,
                 orchvars, hpayload, births, ps, histvars, buildvars>>

\* the next ps.Publish of the call in progress
HandCallStep ==
  /\ Alive /\ hcur # NoCall
  /\ \E pub \in BOOLEAN :
       /\ PublishOne(ps[hcur.mod], hcur.mod, Head(hcur.left), pub)
       /\ hlog' = hlog \o Sent(ps[hcur.mod], Head(hcur.left), pub)
  /\ HandCallGoesOn(hcur.op, hcur.mod, Tail(hcur.left))
  /\ UNCHANGED <<cfgvars, mi, ss, created, closed, pollers, done, ents, icvars, transvars,
                 orchvars, hpayload, births, ps, histvars, buildvars>>

Next ==
  \/ ResolveModule
  \/ MainInitialConnect
  \/ \E ok \in BOOLEAN : TokenComplete(ok)
  \/ ConnectTokDone
  \/ ConnectCancelled
  \/ Tick
  \/ Signal
  \/ MainNewDiscovery
  \/ MainDone
  \/ DeferDisconnect
  \/ DeferClose
  \/ MainExit
  \/ \E e \in {"link", "ip"} : PollerTick(e)
  \/ Reconnect
  \/ OnConnectCancelled
  \/ OrchRecv
  \/ OrchReturn
  \/ OrchAdvertise
  \/ \E m \in ss : OrchSyncBegin(m)
  \/ \E m \in ss : OrchPublishBegin(m)
  \/ OrchCallStep
  \/ OrchSubscribe
  \/ OrchSleep
  \/ \E p \in BirthPayloads : BirthMessage(p)
  \/ HandAdvertise
  \/ HandSleep
  \/ \E m \in ss : HandPublishBegin(m)
  \/ HandCallStep

Spec == Init /\ [][Next]_vars

(***************************************************************************)
(* The lifecycle under fair scheduling: every goroutine that can take a    *)
(* step eventually takes one (main with the ticker of initialConnect, the  *)
(* orchestrator), and a select with several ready cases does not leave     *)
(* one of them out for ever (the runtime picks among them at random). The  *)
(* broker and the signal are not fair: a token may never complete, the     *)
(* signal may never come.                                                  *)
(***************************************************************************)
MainStep ==
  \/ ResolveModule
  \/ MainInitialConnect
  \/ ConnectTokDone
  \/ Tick
  \/ MainNewDiscovery

OrchStep ==
  \/ OrchRecv
  \/ OrchAdvertise
  \/ \E m \in ss : OrchSyncBegin(m)
  \/ \E m \in ss : OrchPublishBegin(m)
  \/ OrchCallStep
  \/ OrchSubscribe
  \/ OrchSleep

Fairness ==
  /\ WF_vars(MainStep)
  /\ SF_vars(ConnectCancelled)
  /\ WF_vars(OrchStep)

\* The runs considered under fair scheduling: every module list, the wan
\* module with its ip entity, discovery enabled, the MAC readable or not.
InitLive ==
  /\ mm \in ModuleLists
  /\ entities = {"ip"}
  /\ prefix = "homeassistant"
  /\ macOK \in BOOLEAN
  /\ linkEnv = {TRUE}
  /\ ipEnv = {"192.0.2.1"}
  /\ Start /\ NoBuild

LiveSpec == InitLive /\ [][Next]_vars /\ Fairness

(***************************************************************************)
(* The refresh functions of the WAN module on their own: a WAN as newWAN   *)
(* leaves it, with sensors that return any value, refreshed by its pollers *)
(* (forced = false) and by Sync and Publish (forced = true). Each refresh  *)
(* is recorded: the last and the one before, per entity.                   *)
(***************************************************************************)
InitRefresh ==
  /\ mm = <<"wan">> /\ entities = {"link", "ip"}
  /\ prefix = "homeassistant" /\ macOK = TRUE
  /\ linkEnv = LinkValues /\ ipEnv = IPValues
  /\ mainpc = "resolve" /\ mi = 2
  /\ ss = {RootName, "wan"} /\ created = {"wan"} /\ closed = {}
  /\ pollers = {<<"wan", "link">>, <<"wan", "ip">>}
  /\ done = FALSE /\ ents = {}
  /\ icpc = "none" /\ tok = "none" /\ attempts = 0 /\ lastErr = "none"
  /\ connected = FALSE /\ disconnected = FALSE /\ emitted = 0 /\ pendingConn = 0
  /\ orun = "notstarted" /\ ostep = 0 /\ ovisited = {} /\ ocur = NoCall
  /\ olog = <<>> /\ received = 0 /\ processed = 0 /\ subscribed = FALSE
  /\ hstep = 0 /\ hvisited = {} /\ hcur = NoCall /\ hlog = <<>>
  /\ hpayload = "none" /\ births = 0
  /\ ps = [m \in {RootName, "wan"} |-> IF m = RootName THEN NilPubSub ELSE StubPubSub]
  /\ online \in linkEnv /\ ip = ""
  /\ lastRefresh = NoRefresh /\ prevRefresh = NoRefresh
  /\ NoBuild

\* the record of a refresh of entity e
Recorded(e, forced, observed, before, r) ==
  /\ prevRefresh' = [prevRefresh EXCEPT ![e] = lastRefresh[e]]
  /\ lastRefresh' = [lastRefresh EXCEPT ![e] =
       [valid |-> TRUE, forced |-> forced, observed |-> observed, before |-> before,
        published |-> IF r.publish THEN 1 ELSE 0]]

\* w.RefreshLink(forced), getLink() returning o
RefreshLinkCall(forced, o) ==
  /\ online' = RefreshLink(online, o, forced).stored
  /\ Recorded("link", forced, o, online, RefreshLink(online, o, forced))
  /\ UNCHANGED <<cfgvars, mainvars, icvars, transvars, orchvars, handvars, ps, ip,
                 buildvars>>

\* w.RefreshIP(forced), getIP() returning a
RefreshIPCall(forced, a) ==
  /\ ip' = RefreshIP(ip, a, forced).stored
  /\ Recorded("ip", forced, a, ip, RefreshIP(ip, a, forced))
  /\ UNCHANGED <<cfgvars, mainvars, icvars, transvars, orchvars, handvars, ps, online,
                 buildvars>>

\* WAN.Sync: w.ps = ps
WANRebind ==
  /\ ps["wan"] # Binding("wan")
  /\ ps' = [ps EXCEPT !["wan"] = Binding("wan")]
  /\ UNCHANGED <<cfgvars, mainvars, icvars, transvars, orchvars, handvars, online, ip,
                 histvars, buildvars>>

NextRefresh ==
  \/ \E forced \in BOOLEAN, o \in linkEnv : RefreshLinkCall(forced, o)
  \/ \E forced \in BOOLEAN, a \in ipEnv : RefreshIPCall(forced, a)
  \/ WANRebind

SpecRefresh == InitRefresh /\ [][NextRefresh]_vars

(***************************************************************************)
(* normalise_config (dunnart.go 310-335). A config is a map from keys to   *)
(* values; a value is a string or a nested value (an object or an array),  *)
(* kept as the pieces of its text so that the {{.NodeId}} token can be     *)
(* told apart. json.Marshal writes the members of a map sorted by key.     *)
(***************************************************************************)
\* a string value
Str(pieces) == [t |-> "string", p |-> pieces]
\* a nested value, as the pieces of its JSON text
Nested(pieces) == [t |-> "nested", p |-> pieces]
\* the string "~"
Tilde == Str(<<"~">>)

\* the keys of the config maps, in the order json.Marshal writes them
KeyOrder ==
  <<"availability", "availability_mode", "availability_topic", "device",
    "device_class", "name", "object_id", "payload_off", "payload_on",
    "state_topic", "unique_id", "~">>

\* the maps from a subset of the keys K to the values V
Maps(K, V) == UNION {[D -> V] : D \in SUBSET K}

config_contains(cfg, key) == key \in DOMAIN cfg

\* the merge loop letting the base field win
MergeBase_Overwrite(cfg, baseCfg) ==
  [k \in DOMAIN cfg \cup DOMAIN baseCfg |->
     IF k \in DOMAIN baseCfg THEN baseCfg[k] ELSE cfg[k]]

\* for k, v := range baseCfg: cfg[k] = v unless cfg has k
MergeBase(cfg, baseCfg) ==
  [k \in DOMAIN cfg \cup DOMAIN baseCfg |->
     IF k \in DOMAIN cfg THEN cfg[k] ELSE baseCfg[k]]

\* availability_topic defaults to "~" when neither availability_topic nor
\* availability is present
DefaultAvailability(cfg) ==
  IF ~config_contains(cfg, "availability_topic") /\ ~config_contains(cfg, "availability")
  THEN [k \in DOMAIN cfg \cup {"availability_topic"} |->
          IF k = "availability_topic" THEN Tilde ELSE cfg[k]]
  ELSE cfg

\* the self-reference rule left out
DropSelfReference_Never(cfg) == cfg

\* if cfg["state_topic"] == "~": delete(cfg, "availability_topic")
DropSelfReference(cfg) ==
  IF config_contains(cfg, "state_topic") /\ cfg["state_topic"] = Tilde
  THEN [k \in DOMAIN cfg \ {"availability_topic"} |-> cfg[k]]
  ELSE cfg

\* cfg as normalise_config leaves it before it is marshalled
NormalisedMap(cfg, baseCfg) ==
  DropSelfReference(DefaultAvailability(MergeBase(cfg, baseCfg)))

RECURSIVE MarshalFrom(_, _)
MarshalFrom(cfg, i) ==
  IF i > Len(KeyOrder) THEN <<>>
  ELSE (IF KeyOrder[i] \in DOMAIN cfg
        THEN <<<<KeyOrder[i], cfg[KeyOrder[i]]>>>> ELSE <<>>)
       \o MarshalFrom(cfg, i + 1)
\* json.Marshal(cfg): the members <<key, value>> of the object, sorted by key
Marshal(cfg) == MarshalFrom(cfg, 1)

\* the pieces of the text of a value: a string is quoted
ValueText(v) == IF v.t = "string" THEN <<"\"">> \o v.p \o <<"\"">> ELSE v.p
RECURSIVE MembersText(_)
MembersText(members) ==
  IF members = <<>> THEN <<>>
  ELSE <<"\"", Head(members)[1], "\":">> \o ValueText(Head(members)[2]) \o
       (IF Len(members) > 1 THEN <<",">> ELSE <<>>) \o MembersText(Tail(members))
\* the text of a JSON object, in pieces
ObjectText(members) == <<"{">> \o MembersText(members) \o <<"}">>

\* normalise_config: the JSON text returned, in pieces
normalise_config(cfg, baseCfg) == ObjectText(Marshal(NormalisedMap(cfg, baseCfg)))

(***************************************************************************)
(* normalise_config on its own: called once with any entity config and any *)
(* base config over a few keys and values.                                 *)
(***************************************************************************)
\* keys and values of the entity configs and base configs considered
NormKeys == {"state_topic", "availability_topic", "availability", "name"}
NormBaseKeys == {"state_topic", "availability_topic", "availability", "~"}
NormVals == {Tilde, Str(<<"~/x">>)}

InitNormalise ==
  /\ mm = <<>> /\ entities = {"link", "ip"} /\ prefix = "homeassistant" /\ macOK = TRUE
  /\ linkEnv = {TRUE} /\ ipEnv = {"192.0.2.1"}
  /\ Start /\ NoDiscovery
  /\ npc = "called" /\ nout = <<>>
  /\ ncfg \in Maps(NormKeys, NormVals)
  /\ nbase \in Maps(NormBaseKeys, NormVals)

\* the call returns: the members of the object it wrote
NormaliseReturn ==
  /\ npc = "called"
  /\ nout' = Marshal(NormalisedMap(ncfg, nbase))
  /\ npc' = "returned"
  /\ UNCHANGED <<cfgvars, mainvars, icvars, transvars, orchvars, handvars, modvars,
                 histvars, ncfg, nbase, discvars>>

SpecNormalise == InitNormalise /\ [][NormaliseReturn]_vars

(***************************************************************************)
(* newDiscovery (dunnart.go 247-289) with the payloads, on its own: called *)
(* twice with the same ss and configuration. The range loop over the ss    *)
(* map visits the modules in any order, a different one in each call.      *)
(***************************************************************************)
\* the node ids considered
NodeIds == {"dunnart", "host"}
\* the template token of the entity configs
NodeIdToken == "{{.NodeId}}"

\* Dunnart.Config (dunnart.go 90-102): the config of the status entity
DunnartStatusCfg ==
  ("name" :> Str(<<"status">>)) @@
  ("object_id" :> Str(<<NodeIdToken, "_status">>)) @@
  ("state_topic" :> Tilde) @@
  ("device_class" :> Str(<<"connectivity">>)) @@
  ("payload_on" :> Str(<<"online">>)) @@
  ("payload_off" :> Str(<<"offline">>))

\* WAN.Config (part_000 99-125): the configs of the link and ip entities
WANLinkCfg ==
  ("name" :> Str(<<"WAN">>)) @@
  ("state_topic" :> Str(<<"~/wan">>)) @@
  ("device_class" :> Str(<<"connectivity">>)) @@
  ("payload_on" :> Str(<<"online">>)) @@
  ("payload_off" :> Str(<<"offline">>))
WANIPCfg(es) ==
  ("name" :> Str(<<"WAN IP">>)) @@
  ("state_topic" :> Str(<<"~/wan/ip">>)) @@
  (IF "link" \in es
   THEN ("availability" :> Nested(<<"[{\"topic\":\"~\"},{\"topic\":\"~/wan\"}]">>)) @@
        ("availability_mode" :> Str(<<"all">>))
   ELSE EmptyMap)

\* entity.config of an entity of a module
EntityConfig(modName, entityName) ==
  IF modName = RootName THEN DunnartStatusCfg
  ELSE IF entityName = "link" THEN WANLinkCfg ELSE WANIPCfg(entities)

\* baseCfg as newDiscovery creates it (lines 258-264)
BaseCfg(nid) ==
  ("~" :> Str(<<BaseTopic>>)) @@
  ("device" :> Nested(<<"{\"connections\":[[\"mac\",\"", get_mac, "\"]],\"name\":\"",
                        nid, "\"}">>))

\* baseCfg given unique_id and object_id only where it has none yet
EntityBase_KeepFirst(base, nid, modName, entityName) ==
  [k \in DOMAIN base \cup {"unique_id", "object_id"} |->
     IF k \in DOMAIN base THEN base[k]
     ELSE IF k = "unique_id" THEN Str(<<Euid(modName, entityName)>>)
     ELSE Str(<<Join(<<nid, modName, entityName>>, "_")>>)]

\* baseCfg["unique_id"] = euid; baseCfg["object_id"] = nodeId_modName_name
EntityBase(base, nid, modName, entityName) ==
  [k \in DOMAIN base \cup {"unique_id", "object_id"} |->
     IF k = "unique_id" THEN Str(<<Euid(modName, entityName)>>)
     ELSE IF k = "object_id" THEN Str(<<Join(<<nid, modName, entityName>>, "_")>>)
     ELSE base[k]]

\* strings.ReplaceAll on a text in pieces, for a token that is a piece
ReplaceAll(pieces, old, new) ==
  [i \in 1..Len(pieces) |-> IF pieces[i] = old THEN new ELSE pieces[i]]

\* the payload of an entity: normalise_config, then the node id substituted
Payload(base, nid, modName, entityName) ==
  Join(ReplaceAll(normalise_config(EntityConfig(modName, entityName), base),
                  NodeIdToken, nid), "")

RECURSIVE BuildEntities(_, _, _, _, _)
\* the inner loop over a.Config() from entity i on: baseCfg and ents afterwards
BuildEntities(modName, i, base, es, nid) ==
  IF i > Len(Config(modName)) THEN [base |-> base, ents |-> es]
  ELSE LET entity == Config(modName)[i]
           b == EntityBase(base, nid, modName, entity[1])
           topic == DiscoveryTopic(modName, entity)
           payload == Payload(b, nid, modName, entity[1])
       IN BuildEntities(modName, i + 1, b,
            [t \in DOMAIN es \cup {topic} |-> IF t = topic THEN payload ELSE es[t]],
            nid)

InitDiscovery ==
  /\ mm \in {<<>>, <<"wan">>}
  /\ entities \in IF mm = <<"wan">> THEN EntitySets ELSE {{"link", "ip"}}
  /\ prefix \in Prefixes /\ macOK \in BOOLEAN
  /\ linkEnv = {TRUE} /\ ipEnv = {"192.0.2.1"}
  /\ mainpc = "newDiscovery" /\ mi = Len(mm) + 1
  /\ ss = {RootName} \cup {mm[i] : i \in 1..Len(mm)}
  /\ created = {mm[i] : i \in 1..Len(mm)} /\ closed = {}
  /\ pollers = {<<mm[i], e>> : i \in 1..Len(mm), e \in WANPollers(entities)}
  /\ done = FALSE /\ ents = {}
  /\ icpc = "returned" /\ tok = "none" /\ attempts = 0 /\ lastErr = "nil"
  /\ connected = TRUE /\ disconnected = FALSE /\ emitted = 1 /\ pendingConn = 1
  /\ orun = "notstarted" /\ ostep = 0 /\ ovisited = {} /\ ocur = NoCall
  /\ olog = <<>> /\ received = 0 /\ processed = 0 /\ subscribed = FALSE
  /\ hstep = 0 /\ hvisited = {} /\ hcur = NoCall /\ hlog = <<>>
  /\ hpayload = "none" /\ births = 0
  /\ ps = [m \in {RootName, "wan"} |-> IF m = RootName THEN NilPubSub ELSE StubPubSub]
  /\ online = TRUE /\ ip = ""
  /\ lastRefresh = NoRefresh /\ prevRefresh = NoRefresh
  /\ NoNormalise
  /\ nodeId \in NodeIds
  /\ dpc = "start" /\ dvisited = <<>> /\ dbaseCfg = EmptyMap /\ dents = EmptyMap
  /\ dprev = [order |-> <<>>, ents |-> EmptyMap] /\ dsecond = FALSE

lifevars == <<cfgvars, mainvars, icvars, transvars, orchvars, handvars, modvars, histvars>>

\* lines 248-264: nothing to build without a prefix; log.Fatalf without a MAC
DiscoveryStart ==
  /\ dpc = "start"
  /\ IF ~DiscoveryEnabled(prefix)
     THEN dpc' = "returned" /\ UNCHANGED dbaseCfg
     ELSE IF ~macOK
     THEN dpc' = "fatal" /\ UNCHANGED dbaseCfg
     ELSE dpc' = "loop" /\ dbaseCfg' = BaseCfg(nodeId)
  /\ dents' = EmptyMap /\ dvisited' = <<>>
  /\ UNCHANGED <<lifevars, normvars, nodeId, dprev, dsecond>>

\* one iteration of for modName, s := range ss, with its inner loop
DiscoveryModule(modName) ==
  /\ dpc = "loop"
  /\ modName \in ss /\ \A i \in 1..Len(dvisited) : dvisited[i] # modName
  /\ dbaseCfg' = BuildEntities(modName, 1, dbaseCfg, dents, nodeId).base
  /\ dents' = BuildEntities(modName, 1, dbaseCfg, dents, nodeId).ents
  /\ dvisited' = Append(dvisited, modName)
  /\ UNCHANGED <<lifevars, normvars, nodeId, dpc, dprev, dsecond>>

\* the range loop is over: return Discovery{ents: ents}
DiscoveryReturn ==
  /\ dpc = "loop" /\ {dvisited[i] : i \in 1..Len(dvisited)} = ss
  /\ dpc' = "returned"
  /\ UNCHANGED <<lifevars, normvars, nodeId, dvisited, dbaseCfg, dents, dprev, dsecond>>

\* newDiscovery is called again with the same arguments
DiscoveryAgain ==
  /\ dpc = "returned" /\ ~dsecond
  /\ dprev' = [order |-> dvisited, ents |-> dents]
  /\ dsecond' = TRUE
  /\ dpc' = "start" /\ dvisited' = <<>> /\ dbaseCfg' = EmptyMap /\ dents' = EmptyMap
  /\ UNCHANGED <<lifevars, normvars, nodeId>>

NextDiscovery ==
  \/ DiscoveryStart
  \/ \E m \in ss : DiscoveryModule(m)
  \/ DiscoveryReturn
  \/ DiscoveryAgain

SpecDiscovery == InitDiscovery /\ [][NextDiscovery]_vars

(***************************************************************************)
(* Properties                                                              *)
(***************************************************************************)
Range(q) == {q[i] : i \in 1..Len(q)}
\* the indices of the entries of a log that are of one kind
Idx(q, kind) == {i \in 1..Len(q) : q[i][1] = kind}
\* the state topics of a module (topic layout: {baseTopic}, {baseTopic}/version,
\* {baseTopic}/{moduleName}{subtopic})
ExpectedStateTopics(m) ==
  IF m = RootName THEN {"dunnart/host", "dunnart/host/version"}
  ELSE {"dunnart/host/wan" : e \in entities \cap {"link"}} \cup
       {"dunnart/host/wan/ip" : e \in entities \cap {"ip"}}
\* the orchestrator is back at its select with a round finished
RoundFinished == orun = "running" /\ ostep = 0 /\ received > 0

\* C1: once the orchestrator has finished processing a connection event, every
\* module of ss (the root module and every configured module) has had every
\* topic of its state published to the broker by the orchestrator since that
\* event was received.
C1_FullStateSinceEvent ==
  (RoundFinished /\ processed = received /\ ~done) =>
    \A m \in ss : \A t \in ExpectedStateTopics(m) : <<"pub", t>> \in Range(olog)

\* C1 witness: the second event has been processed, with the wan module and
\* both its entities, and no shutdown
C1_Witness ==
  /\ RoundFinished /\ processed = 2 /\ ~done
  /\ ss = {RootName, "wan"} /\ entities = {"link", "ip"}
  /\ <<"pub", "dunnart/host/wan/ip">> \in Range(olog)

\* the rank of the orchestrator's statements in the order the claim gives
StepRank(kind) ==
  CASE kind = "advertise" -> 1 [] kind = "sync" -> 2 [] kind = "subscribe" -> 3
    [] kind = "sleep" -> 4 [] kind = "publish" -> 5 [] OTHER -> 0

\* the orchestrator's round so far is in the fixed order: the advertisement of
\* all of ents first, then one sync per module, then the subscription, then
\* the settle delay, then one publish() per module
RoundInOrder ==
  /\ olog # <<>> => olog[1] = <<"advertise", ents>>
  /\ \A i, j \in 1..Len(olog) :
       (i < j /\ StepRank(olog[i][1]) > 0 /\ StepRank(olog[j][1]) > 0) =>
         /\ StepRank(olog[i][1]) <= StepRank(olog[j][1])
         /\ olog[i] # olog[j]
  /\ (Idx(olog, "subscribe") # {}) =>
       \A m \in ss : \E i \in Idx(olog, "sync") : olog[i][2] = m
  /\ (Idx(olog, "sleep") # {}) => Idx(olog, "subscribe") # {}
  /\ (Idx(olog, "publish") # {}) => Idx(olog, "sleep") # {}
  /\ (RoundFinished /\ processed = received) =>
       \A m \in ss : \E i \in Idx(olog, "publish") : olog[i][2] = m

\* C2 as stated: the fixed order, and no state publish of the round reaches
\* the broker before the settle delay of the round has elapsed.
C2_StateOnlyAfterSettle ==
  /\ RoundInOrder
  /\ \A i \in Idx(olog, "pub") : \E j \in Idx(olog, "sleep") : j < i

\* C2 amended: the fixed order holds; every state publish of the round follows
\* the advertisement; the publish() calls and their state publishes follow the
\* settle delay, while the state publishes before the settle delay are those
\* of the sync() calls and follow a rebinding.
C2_RoundInOrder ==
  /\ RoundInOrder
  /\ \A i \in Idx(olog, "pub") :
       /\ \E j \in Idx(olog, "advertise") : j < i
       /\ \/ \E j \in Idx(olog, "sleep") : j < i
          \/ \E j \in Idx(olog, "sync") : j < i

\* C2 witness: the end-to-end scenario, a finished round with the wan module
\* where the discovery entries were advertised and the state of wan/ip was
\* published both by sync() before and by publish() after the settle delay
C2_Witness ==
  /\ RoundFinished /\ processed = received /\ ss = {RootName, "wan"}
  /\ "homeassistant/sensor/dnrt-001122334455-wan-ip/config" \in olog[1][2]
  /\ "homeassistant/binary_sensor/dnrt-001122334455-wan-link/config" \in olog[1][2]
  /\ \E i, j, k \in 1..Len(olog) :
       /\ i < j /\ j < k /\ olog[j] = <<"sleep">>
       /\ olog[i] = <<"pub", "dunnart/host/wan/ip">>
       /\ olog[k] = <<"pub", "dunnart/host/wan/ip">>

\* C4: initialConnect returns only when connect() returned nil, which it does
\* only after an attempt succeeded or with done closed; after a failed attempt
\* it is waiting for the next tick or attempting again, and has not returned.
C4_InitialConnectBlocks ==
  /\ icpc = "returned" => (lastErr = "nil" /\ (connected \/ done))
  /\ lastErr = "err" => (mainpc = "initialConnect" /\ icpc \in {"ticker", "select"})
  /\ icpc = "ticker" => lastErr = "err"

\* C4 witness: initialConnect has returned, without shutdown, from an attempt
\* made after a failed one
C4_Witness ==
  /\ mainpc = "newDiscovery" /\ icpc = "returned" /\ attempts >= 2
  /\ ~done /\ connected

\* the rank of the handler's statements in the order the claim gives
HandRank(kind) ==
  CASE kind = "advertise" -> 1 [] kind = "sleep" -> 2 [] kind = "publish" -> 3
    [] OTHER -> 0

\* C6: birth messages are delivered only once the topic is subscribed; a
\* message with payload "online" makes the handler advertise all of ents,
\* then sleep, then call publish() on every module, in this order; a message
\* with another payload makes it do nothing.
C6_BirthHandler ==
  /\ births > 0 => subscribed
  /\ hpayload # "online" => (hlog = <<>> /\ hstep = 0 /\ hcur = NoCall)
  /\ hlog # <<>> => hlog[1] = <<"advertise", ents>>
  /\ \A i, j \in 1..Len(hlog) :
       (i < j /\ HandRank(hlog[i][1]) > 0 /\ HandRank(hlog[j][1]) > 0) =>
         /\ HandRank(hlog[i][1]) <= HandRank(hlog[j][1])
         /\ hlog[i] # hlog[j]
  /\ (Idx(hlog, "publish") # {}) => Idx(hlog, "sleep") # {}
  /\ \A i \in Idx(hlog, "pub") : \E j \in Idx(hlog, "publish") : j < i
  /\ (hpayload = "online" /\ hstep = 0) =>
       /\ \A m \in ss : \E i \in Idx(hlog, "publish") : hlog[i][2] = m
       /\ \A m \in ss : \A t \in ExpectedStateTopics(m) : <<"pub", t>> \in Range(hlog)

\* C6 witness: the handler has finished with an "online" message, with the
\* wan module
C6_Witness ==
  /\ hpayload = "online" /\ hstep = 0 /\ ss = {RootName, "wan"}
  /\ entities = {"link", "ip"} /\ prefix # ""
  /\ Len(hlog) = 8

\* C7 as stated: no two of the advertise, sync and publish operations execute
\* at the same time, and no module is rebound by sync() while a publish() of
\* it is in progress.
C7_Serial ==
  /\ ~(ocur # NoCall /\ hcur # NoCall)
  /\ ~(ocur.op = "sync" /\ hcur.op = "publish" /\ ocur.mod = hcur.mod)

\* C8 as stated: when the process has exited with modules created, every
\* created module is closed, no poller runs, and the connection, if set up,
\* has been disconnected.
C8_CleanExit ==
  (mainpc \in {"exited", "fatal_unsupported", "fatal_discovery"} /\ created # {}) =>
    /\ created \subseteq closed
    /\ pollers = {}
    /\ icpc # "none" => disconnected

\* C9 as stated: at the abort for an unknown module name no module has been
\* instantiated, no poller started and no connection attempted.
C9_NoPartialStartup ==
  mainpc = "fatal_unsupported" =>
    (created = {} /\ pollers = {} /\ icpc = "none" /\ tok = "none")

\* C3 as stated: every connection event emitted is eventually processed by
\* the orchestrator, unless the shutdown signal is raised.
C3_EveryEventProcessed ==
  \A n \in 1..MaxEvents : (emitted >= n) ~> (processed >= n \/ done)

\* C3 amended: every connection event emitted is eventually processed by the
\* orchestrator, unless the shutdown signal is raised or newDiscovery aborts
\* the process at startup.
C3_EveryEventProcessedUnlessAbort ==
  \A n \in 1..MaxEvents :
    (emitted >= n) ~> (processed >= n \/ done \/ mainpc = "fatal_discovery")

\* C3 witness: a reconnect has arrived while the orchestrator was busy with
\* the first event, and both events are processed, without shutdown
C3_Witness ==
  /\ emitted = 2 /\ received = 2 /\ processed = 2 /\ ~done /\ pendingConn = 0

\* C5: once the shutdown signal is raised, initialConnect returns, whatever
\* the broker does, with connect() having returned nil (the abort for an
\* unknown module happens before initialConnect is called).
C5_InitialConnectCancellable ==
  done ~> ((icpc = "returned" /\ lastErr = "nil") \/ mainpc = "fatal_unsupported")

\* C5 witness: initialConnect has returned on the signal from its retry loop,
\* no attempt having succeeded
C5_Witness ==
  /\ mainpc = "newDiscovery" /\ icpc = "returned" /\ lastErr = "nil"
  /\ done /\ ~connected /\ attempts >= 2 /\ emitted = 0

\* the stored value of an entity of the wan module
Stored(e) == IF e = "link" THEN online ELSE ip

\* C10: a refresh with forced=false publishes if and only if the observed
\* value differs from the stored one; a refresh with forced=true publishes
\* exactly once; after a refresh the stored value is the observed one; two
\* consecutive forced=false refreshes observing the same value publish at
\* most once in total, and not at all when the stored value matched.
C10_DeltaSuppression ==
  \A e \in {"link", "ip"} :
    LET L == lastRefresh[e]
        P == prevRefresh[e]
    IN L.valid =>
         /\ L.published \in {0, 1}
         /\ ~L.forced => (L.published = 1 <=> L.observed # L.before)
         /\ L.forced => L.published = 1
         /\ Stored(e) = L.observed
         /\ (P.valid /\ ~P.forced /\ ~L.forced /\ P.observed = L.observed) =>
              /\ P.published + L.published <= 1
              /\ L.published = 0
              /\ P.before = P.observed => P.published + L.published = 0

\* C10 witness: two consecutive RefreshLink(false) observed the same value,
\* the first published it and the second did not; and a forced RefreshIP
\* published a value equal to the stored one
C10_Witness ==
  /\ prevRefresh["link"].valid /\ lastRefresh["link"].valid
  /\ ~prevRefresh["link"].forced /\ ~lastRefresh["link"].forced
  /\ prevRefresh["link"].observed = lastRefresh["link"].observed
  /\ prevRefresh["link"].published = 1 /\ lastRefresh["link"].published = 0
  /\ lastRefresh["ip"].valid /\ lastRefresh["ip"].forced
  /\ lastRefresh["ip"].observed = lastRefresh["ip"].before
  /\ lastRefresh["ip"].published = 1

\* C11 as stated: every module of ss, the root module included, is bound to
\* the stub binding until it is synced for the first time, so that whatever a
\* module publishes before the first connection event is received is
\* discarded, nothing having reached the broker, and no module has a missing
\* (nil) binding.
C11_StubUntilFirstSync ==
  /\ \A m \in ss : ps[m].kind \in {"stub", "mqtt"}
  /\ received = 0 =>
       /\ \A m \in ss : ps[m] = StubPubSub
       /\ olog = <<>> /\ hlog = <<>>
  /\ mainpc # "panicked"

\* the object has a member with key k / the value of that member
Has(members, k) == \E i \in 1..Len(members) : members[i][1] = k
Get(members, k) == members[CHOOSE i \in 1..Len(members) : members[i][1] = k][2]

\* C12: in the object normalise_config returns, every key of the entity
\* config has the value the entity config gave it, except that
\* availability_topic may be missing when state_topic is "~"; and every other
\* key of the result is absent from the entity config and is a field of the
\* base config, with the base's value, or the defaulted availability_topic.
C12_NoOverwrite ==
  npc = "returned" =>
    /\ \A k \in DOMAIN ncfg :
         \/ Has(nout, k) /\ Get(nout, k) = ncfg[k]
         \/ /\ k = "availability_topic" /\ ~Has(nout, k)
            /\ Has(nout, "state_topic") /\ Get(nout, "state_topic") = Tilde
    /\ \A i \in 1..Len(nout) :
         nout[i][1] \notin DOMAIN ncfg =>
           \/ nout[i][1] \in DOMAIN nbase /\ nout[i][2] = nbase[nout[i][1]]
           \/ nout[i] = <<"availability_topic", Tilde>>

\* C12 witness: the entity config sets state_topic to "~/x", the base has
\* state_topic "~" and a field the entity lacks: the result keeps "~/x" and
\* has the base's field
C12_Witness ==
  /\ npc = "returned"
  /\ "state_topic" \in DOMAIN ncfg /\ ncfg["state_topic"] = Str(<<"~/x">>)
  /\ "state_topic" \in DOMAIN nbase /\ nbase["state_topic"] = Tilde
  /\ "~" \in DOMAIN nbase
  /\ Get(nout, "state_topic") = Str(<<"~/x">>)
  /\ Get(nout, "~") = nbase["~"]

\* a key is present after the merge / its value after the merge
PresentMerged(k) == k \in DOMAIN ncfg \cup DOMAIN nbase
MergedValue(k) == IF k \in DOMAIN ncfg THEN ncfg[k] ELSE nbase[k]

\* C13: if state_topic is "~" after the merge, the result has no
\* availability_topic; otherwise, if neither availability_topic nor
\* availability is present after the merge, the result has availability_topic
\* "~"; otherwise each of the two is in the result exactly if it was present,
\* with the value it had.
C13_AvailabilityRule ==
  npc = "returned" =>
    IF PresentMerged("state_topic") /\ MergedValue("state_topic") = Tilde
    THEN ~Has(nout, "availability_topic")
    ELSE IF ~PresentMerged("availability_topic") /\ ~PresentMerged("availability")
    THEN /\ Has(nout, "availability_topic")
         /\ Get(nout, "availability_topic") = Tilde
         /\ ~Has(nout, "availability")
    ELSE \A k \in {"availability_topic", "availability"} :
           IF PresentMerged(k)
           THEN Has(nout, k) /\ Get(nout, k) = MergedValue(k)
           ELSE ~Has(nout, k)

\* C13 witness: the entity config has state_topic "~" and sets an
\* availability_topic itself, and the result has none
C13_Witness ==
  /\ npc = "returned"
  /\ DOMAIN ncfg = {"state_topic", "availability_topic"}
  /\ ncfg["state_topic"] = Tilde /\ ncfg["availability_topic"] = Str(<<"~/x">>)
  /\ ~Has(nout, "availability_topic") /\ Has(nout, "state_topic")

\* C14: a second call of newDiscovery with the same modules, node id, unique
\* id, prefix and MAC returns the same mapping from topic to payload as the
\* first, whatever the orders in which the two calls went through the ss map.
C14_Deterministic ==
  (dpc = "returned" /\ dsecond) => dents = dprev.ents

\* C14 witness: two calls have returned having visited the root module and
\* the wan module in opposite orders, with the three entities in the mapping
\* and the payload of the status entity as the code writes it
C14_Witness ==
  /\ dpc = "returned" /\ dsecond
  /\ dprev.order = <<"wan", RootName>> /\ dvisited = <<RootName, "wan">>
  /\ entities = {"link", "ip"} /\ nodeId = "host"
  /\ Cardinality(DOMAIN dents) = 3
  /\ dents["homeassistant/binary_sensor/dnrt-001122334455-status/config"] =
       "{\"device\":{\"connections\":[[\"mac\",\"00:11:22:33:44:55\"]],\"name\":\"host\"}," \o
       "\"device_class\":\"connectivity\",\"name\":\"status\",\"object_id\":\"host_status\"," \o
       "\"payload_off\":\"offline\",\"payload_on\":\"online\",\"state_topic\":\"~\"," \o
       "\"unique_id\":\"dnrt-001122334455-status\",\"~\":\"dunnart/host\"}"

\* C15: with an empty prefix the discovery mapping is empty, every advertise
\* (of the orchestrator and of the birth-message handler) publishes nothing,
\* and the process is not aborted for the MAC address, readable or not; the
\* abort of newDiscovery happens only with a non-empty prefix and no
\* readable MAC address.
C15_DiscoveryOptional ==
  /\ prefix = "" =>
       /\ ents = {}
       /\ mainpc # "fatal_discovery"
       /\ \A i \in Idx(olog, "advertise") : olog[i][2] = {}
       /\ \A i \in Idx(hlog, "advertise") : hlog[i][2] = {}
  /\ mainpc = "fatal_discovery" => (prefix # "" /\ ~macOK)

\* C15 witness: no prefix and no readable MAC address, and the process has
\* got through newDiscovery: a connection event is processed and a birth
\* message handled, both having advertised nothing
C15_Witness ==
  /\ prefix = "" /\ ~macOK
  /\ processed >= 1 /\ <<"advertise", {}>> \in Range(olog)
  /\ hpayload = "online" /\ hstep = 0 /\ <<"advertise", {}>> \in Range(hlog)

\* a step that changes the binding of a module is a step of the orchestrator
\* in its sync statement, and it leaves no module that had a live binding
\* without one
RebindStep ==
  /\ ps' # ps => (orun = "running" /\ OrchOp = "sync" /\ ocur = NoCall)
  /\ \A m \in {RootName, "wan"} : ps[m].kind = "mqtt" => ps'[m].kind = "mqtt"

\* C16: the binding of a module is changed only by the orchestrator's sync
\* statement; once the orchestrator has processed a connection event every
\* module of ss is bound to a live binding, on the base topic for the root
\* module and on base topic/name for another module; a module with a live
\* binding never goes back to the stub.
C16_Rebinding ==
  /\ [](processed >= 1 =>
         \A m \in ss :
           ps[m] = [kind |-> "mqtt",
                    baseTopic |-> IF m = "" THEN "dunnart/host" ELSE "dunnart/host/" \o m])
  /\ [][RebindStep]_vars

\* C16 witness: two connection events are processed, a birth message is
\* handled, and the wan module is bound to dunnart/host/wan
C16_Witness ==
  /\ processed = 2 /\ ss = {RootName, "wan"}
  /\ hpayload = "online" /\ hstep = 0
  /\ ps["wan"] = MQTT("dunnart/host/wan") /\ ps[RootName] = MQTT("dunnart/host")

\* Sync has been called on the module: only Sync gives it an MQTT binding
Synced(m) == ps[m].kind = "mqtt"

\* C17: every Publish() call, of the orchestrator or of the birth-message
\* handler, finished or in progress, is on a module that has been synced
\* before, and no call was made on a missing binding.
C17_SyncBeforePublish ==
  /\ mainpc # "panicked"
  /\ \A i \in Idx(olog, "publish") : Synced(olog[i][2])
  /\ \A i \in Idx(hlog, "publish") : Synced(hlog[i][2])
  /\ ocur.op = "publish" => Synced(ocur.mod)
  /\ hcur.op = "publish" => Synced(hcur.mod)

\* C17 witness: the handler is inside Publish() of the root module while the
\* orchestrator, in its second round, has not yet synced the root module again
C17_Witness ==
  /\ hcur.op = "publish" /\ hcur.mod = RootName
  /\ received = 2 /\ OrchOp \in {"advertise", "sync"} /\ RootName \notin ovisited
  /\ ps[RootName] = MQTT("dunnart/host")

\* the entities the modules of ss expose: <<module name, <<name, class>>>>
ExposedEntities ==
  {<<m, Config(m)[i]>> : <<m, i>> \in {<<m, i>> \in ss \X (1..2) : i <= Len(Config(m))}}

\* C18: in a build with discovery enabled, two distinct exposed entities of
\* the same class have different unique ids and different discovery topics,
\* and the mapping newDiscovery returns has one entry per exposed entity,
\* under the entity's topic and with the entity's own payload.
C18_TopicsInjective ==
  (dpc = "returned" /\ prefix # "") =>
    /\ \A a, b \in ExposedEntities :
         (a # b /\ a[2][2] = b[2][2]) =>
           /\ Euid(a[1], a[2][1]) # Euid(b[1], b[2][1])
           /\ DiscoveryTopic(a[1], a[2]) # DiscoveryTopic(b[1], b[2])
    /\ Cardinality(DOMAIN dents) = Cardinality(ExposedEntities)
    /\ \A e \in ExposedEntities :
         /\ DiscoveryTopic(e[1], e[2]) \in DOMAIN dents
         /\ dents[DiscoveryTopic(e[1], e[2])] =
              Payload(EntityBase(BaseCfg(nodeId), nodeId, e[1], e[2][1]),
                      nodeId, e[1], e[2][1])

\* C18 witness: a build with the root module and the wan module with both
\* entities, where status and link are both binary sensors: three entries
C18_Witness ==
  /\ dpc = "returned" /\ prefix = "homeassistant"
  /\ ss = {RootName, "wan"} /\ entities = {"link", "ip"}
  /\ DOMAIN dents =
       {"homeassistant/binary_sensor/dnrt-001122334455-status/config",
        "homeassistant/binary_sensor/dnrt-001122334455-wan-link/config",
        "homeassistant/sensor/dnrt-001122334455-wan-ip/config"}

\* the number of publishes of a log that went to the client
PubCount(q) == Cardinality(Idx(q, "pub"))

\* once done is closed the orchestrator receives no further connection event
\* and, when at its select, begins no round
NoNewRound ==
  done => (received' = received /\ (ostep = 0 => ostep' = 0))

\* C19 as stated: once the shutdown signal is raised no new round begins, and
\* nothing is published on the client once main has disconnected it.
C19_NothingAfterDisconnect ==
  [][/\ NoNewRound
     /\ disconnected => (PubCount(olog') <= PubCount(olog) /\
                          PubCount(hlog') <= PubCount(hlog))]_vars

\* C19 amended: once the shutdown signal is raised (done is closed) no new
\* round begins: no on-connect callback delivers its event and the
\* orchestrator receives none, also when a callback is blocked in its select
\* at that time.
C19_NoNewRoundAfterShutdown == [][NoNewRound]_vars

\* C19 witness: done is closed while an on-connect callback is blocked in its
\* select and the orchestrator, having processed an event, is at its select
C19_Witness ==
  /\ done /\ pendingConn > 0 /\ orun = "running" /\ ostep = 0
  /\ received = 1 /\ processed = 1 /\ emitted = 2

\* C20 as stated: when WAN.Sync has been called, every poller it calls Sync
\* on is one newWAN created, and when WAN.Close has been called, every
\* poller it calls Close on is one newWAN created.
C20_OnlyCreatedPollers ==
  /\ (\E i \in Idx(olog, "sync") : olog[i][2] = "wan") =>
       \A e \in Range(WANSyncCalls) : e \in WANPollers(entities)
  /\ "wan" \in closed =>
       \A e \in Range(WANCloseCalls) : e \in WANPollers(entities)

====
